---- MODULE Spec2Model ----
(***************************************************************************)
(* repository-inspector: the discovery-and-classification pipeline.        *)
(*                                                                         *)
(* The module models                                                       *)
(*   - mapWithConcurrency (shared/utils/concurrency.ts) as a state machine *)
(*     at the granularity of JavaScript jobs: one action is one            *)
(*     run-to-completion piece of code between two awaits;                 *)
(*   - ClassificationService.classifyOne and classifyByName, the config    *)
(*     name tables and the binary heuristic as operators;                  *)
(*   - the classification batch of generateReport, which runs classifyOne  *)
(*     through mapWithConcurrency with 8 workers;                          *)
(*   - FilesystemWalker.discover (adapters/outbound/discovery/fs-walker)   *)
(*     as a state machine with one action per settled await, on a tree     *)
(*     whose entries the directory handles return in any order;            *)
(*   - isLikelyBinary on its own, on arbitrary samples and options.        *)
(*                                                                         *)
(* JavaScript strings are TLA+ strings, arrays are sequences (slot i of    *)
(* the code is element i + 1 here), byte buffers are sequences of 0..255.  *)
(***************************************************************************)
EXTENDS Integers, Sequences, FiniteSets, TLC

VARIABLES
  mapper,       \* which mapper was passed: "generic" or "classify"
  items,        \* the items argument (for "classify": the discovered entries)
  concurrency,  \* the concurrency argument
  rejects,      \* generic mapper: the indices whose invocation rejects
  disk,         \* classify mapper: relativePath -> what the reader finds there
  mode,         \* "idle", then "seq" (concurrency <= 1) or "pool"
  workers,      \* the async frames awaiting a mapper invocation
  next,         \* the shared cursor of the pool
  results,      \* the pool's preallocated output array
  out,          \* the sequential branch's output array
  status,       \* the promise returned by mapWithConcurrency
  returned,     \* the array it resolved with
  calls,        \* history: how often mapper was invoked per index
  readerLog,    \* history: the reader / binaryCheck invocations, <<op, index>>
  summary,      \* generateReport's counters after the batch
  tree,         \* discover: the directory tree on disk, a set of nodes
  walkPc,       \* discover: where the async function stands
  stack,        \* discover: the stack of directories still to open
  walkOut,      \* discover: its local array `out`
  dirHandle,    \* discover: the open directory handle and what it has left
  thrown,       \* discover: the exception the finally block will rethrow
  walkResult,   \* discover: the array the promise resolved with
  walkError,    \* discover: the error the promise rejected with
  opened,       \* history: the directories opendir succeeded on, in order
  emitted,      \* history: the absolute paths pushed to `out`, in order
  popped,       \* history: the directories popped off the stack, in order
  closed,       \* history: the directories whose handle was closed, in order
  probe         \* isLikelyBinary on its own: sample, options and verdict

walkVars == <<tree, walkPc, stack, walkOut, dirHandle, thrown, walkResult,
              walkError, opened, emitted, popped, closed>>

mapVars == <<mapper, items, concurrency, rejects, disk, mode, workers, next,
             results, out, status, returned, calls, readerLog, summary>>

vars == <<mapVars, walkVars, probe>>

(***************************************************************************)
(* Bounds of the model.                                                    *)
(***************************************************************************)
MaxItems == 3
MaxFiles == 3
MaxEntries == 3
MaxSample == 3
MaxEntriesFair == 2

(***************************************************************************)
(* Generic helpers.                                                        *)
(***************************************************************************)
Min(a, b) == IF a <= b THEN a ELSE b

\* A hole of `new Array(n)`, and the value `undefined`.
Empty == [hole |-> TRUE]
Undefined == "<undefined>"
NoValue == [none |-> TRUE]

(***************************************************************************)
(* String primitives of the JavaScript runtime used by the code.           *)
(***************************************************************************)
UpperLetters == "ABCDEFGHIJKLMNOPQRSTUVWXYZ"
LowerLetters == "abcdefghijklmnopqrstuvwxyz"

CharAt(s, k) == SubSeq(s, k, k)

toLowerCaseChar(c) ==
  IF \E k \in 1..Len(UpperLetters) : CharAt(UpperLetters, k) = c
    THEN CharAt(LowerLetters, CHOOSE k \in 1..Len(UpperLetters) : CharAt(UpperLetters, k) = c)
    ELSE c

\* The characters of s from position k on, each lower-cased.
RECURSIVE toLowerCaseFrom(_, _)
toLowerCaseFrom(s, k) ==
  IF k > Len(s) THEN ""
  ELSE toLowerCaseChar(CharAt(s, k)) \o toLowerCaseFrom(s, k + 1)

toLowerCase(s) == toLowerCaseFrom(s, 1)

startsWith(s, p) == Len(s) >= Len(p) /\ SubSeq(s, 1, Len(p)) = p

endsWith(s, p) == Len(s) >= Len(p) /\ SubSeq(s, Len(s) - Len(p) + 1, Len(s)) = p

\* s.split('/').pop(): the text after the last '/', the whole string if none.
splitPop(s) ==
  LET slashes == {k \in 1..Len(s) : CharAt(s, k) = "/"}
  IN  IF slashes = {} THEN s
      ELSE LET last == CHOOSE k \in slashes : \A j \in slashes : j <= k
           IN  SubSeq(s, last + 1, Len(s))

(***************************************************************************)
(* domain/policies/config-names: the static tables and their lookups.      *)
(***************************************************************************)
CONFIG_BASENAMES ==
  { "package.json", "package-lock.json", "pnpm-lock.yaml", "yarn.lock",
    ".npmrc", ".nvmrc", ".editorconfig", ".gitattributes", ".gitignore",
    ".gitmodules", ".env", ".env.local", ".env.example", "tsconfig.json",
    "jsconfig.json",
    ".eslintrc", ".eslintrc.js", ".eslintrc.cjs", ".eslintrc.json",
    ".prettierrc", ".prettierrc.js", ".prettierrc.cjs", ".prettierrc.json",
    ".prettierignore", "prettier.config.js", "prettier.config.cjs",
    "jest.config.js", "jest.config.cjs", "vitest.config.ts",
    "vitest.config.js", "webpack.config.js", "rollup.config.js",
    "vite.config.ts", "vite.config.js", "Dockerfile", "docker-compose.yml",
    "docker-compose.yaml" }

CONFIG_DIR_PREFIXES == << ".github/", ".gitlab/", ".circleci/", ".husky/" >>

isKnownConfigByBasename(basenameLower) == basenameLower \in CONFIG_BASENAMES

isUnderKnownConfigDir(posixRelPathLower) ==
  \E k \in 1..Len(CONFIG_DIR_PREFIXES) :
    startsWith(posixRelPathLower, CONFIG_DIR_PREFIXES[k])

(***************************************************************************)
(* shared/utils/binary: the binary heuristic.  The threshold 0.3 is kept   *)
(* as the fraction 3/10; the comparison ratio > threshold is done on the   *)
(* cross products.                                                         *)
(***************************************************************************)
ASCII_PRINTABLE_MIN == 32
ASCII_PRINTABLE_MAX == 126
ASCII_COMMON_WHITESPACE == {9, 10, 13}

DefaultBinaryOptions ==
  [treatNulAsBinary |-> TRUE, thresholdNum |-> 3, thresholdDen |-> 10]

printable(b) ==
  (b >= ASCII_PRINTABLE_MIN /\ b <= ASCII_PRINTABLE_MAX)
    \/ b \in ASCII_COMMON_WHITESPACE

isLikelyBinaryInclusive(sample, opts) ==
  IF Len(sample) = 0 THEN FALSE
  ELSE IF opts.treatNulAsBinary /\ \E k \in 1..Len(sample) : sample[k] = 0 THEN TRUE
  ELSE LET nonPrintable == Cardinality({k \in 1..Len(sample) : ~printable(sample[k])})
       IN  nonPrintable * opts.thresholdDen >= opts.thresholdNum * Len(sample)

isLikelyBinary(sample, opts) ==
  IF Len(sample) = 0 THEN FALSE
  ELSE IF opts.treatNulAsBinary /\ \E k \in 1..Len(sample) : sample[k] = 0 THEN TRUE
  ELSE LET nonPrintable == Cardinality({k \in 1..Len(sample) : ~printable(sample[k])})
       IN  nonPrintable * opts.thresholdDen > opts.thresholdNum * Len(sample)

(***************************************************************************)
(* adapters/outbound/reader/fs-reader: what the reader finds on disk.      *)
(* disk[relPath] = [stat |-> [size |-> n] or IOError,                      *)
(*                  read |-> [bytes |-> content] or IOError].              *)
(* stat and readHead are separate system calls, so the size reported and   *)
(* the bytes read are independent inputs.                                  *)
(***************************************************************************)
IOError == [error |-> "IOError"]
IsError(x) == "error" \in DOMAIN x

\* FSReader.stat: { sizeBytes: s.size }, or the rejection of fs.stat.
readerStat(relPath) ==
  IF IsError(disk[relPath].stat) THEN IOError
  ELSE [sizeBytes |-> disk[relPath].stat.size]

\* FSReader.readHead: at most n bytes from position 0, or the rejection of
\* open / read.
\* Faulty variant of readerReadHead: the whole content, not the first n bytes.
readerReadHeadWhole(relPath, n) ==
  IF IsError(disk[relPath].read) THEN IOError
  ELSE [bytes |-> disk[relPath].read.bytes]

readerReadHead(relPath, n) ==
  IF IsError(disk[relPath].read) THEN IOError
  ELSE LET bytesRead == Min(n, Len(disk[relPath].read.bytes))
       IN  [bytes |-> SubSeq(disk[relPath].read.bytes, 1, bytesRead)]

(***************************************************************************)
(* domain/services/classification-service.                                 *)
(***************************************************************************)
DEFAULT_MAX_BYTES == 204800
HEAD_SAMPLE_BYTES == 4096

\* The service generateReport constructs.
maxBytes == DEFAULT_MAX_BYTES
headSampleBytes == HEAD_SAMPLE_BYTES

extToLangHint(p) ==
  IF endsWith(p, ".ts") THEN "ts"
  ELSE IF endsWith(p, ".tsx") THEN "tsx"
  ELSE IF endsWith(p, ".js") \/ endsWith(p, ".mjs") \/ endsWith(p, ".cjs") THEN "js"
  ELSE IF endsWith(p, ".json") \/ endsWith(p, ".jsonc") THEN "json"
  ELSE IF endsWith(p, ".yml") \/ endsWith(p, ".yaml") THEN "yaml"
  ELSE IF endsWith(p, ".md") \/ endsWith(p, ".mdx") THEN "md"
  ELSE IF endsWith(p, ".html") THEN "html"
  ELSE IF endsWith(p, ".xml") THEN "xml"
  ELSE IF endsWith(p, ".css") THEN "css"
  ELSE IF endsWith(p, ".scss") THEN "scss"
  ELSE IF endsWith(p, ".sass") THEN "sass"
  ELSE Undefined

\* Faulty variant of classifyByName: the path is not lower-cased.
classifyByNameNoLower(relativePath) ==
  LET lower == relativePath
      base == splitPop(lower)
  IN  IF isUnderKnownConfigDir(lower)
        THEN [category |-> "config", languageHint |-> extToLangHint(lower)]
      ELSE IF isKnownConfigByBasename(base)
        THEN [category |-> "config", languageHint |-> extToLangHint(lower)]
      ELSE [category |-> "code", languageHint |-> extToLangHint(lower)]

classifyByName(relativePath) ==
  LET lower == toLowerCase(relativePath)
      base == splitPop(lower)
  IN  IF isUnderKnownConfigDir(lower)
        THEN [category |-> "config", languageHint |-> extToLangHint(lower)]
      ELSE IF isKnownConfigByBasename(base)
        THEN [category |-> "config", languageHint |-> extToLangHint(lower)]
      ELSE [category |-> "code", languageHint |-> extToLangHint(lower)]

(***************************************************************************)
(* A mapper invocation in flight is a task [phase, val].                   *)
(*   generic mapper:  "run" -> "fulfilled" | "rejected"                    *)
(*   classify mapper: "stat" -> "readHead" -> "classified" | "threw"       *)
(*                    -> "fulfilled"                                       *)
(* "classified"/"threw" is classifyOne's promise settled, awaited by the   *)
(* mapper's try block; "fulfilled"/"rejected" is the mapper's own promise  *)
(* settled, awaited by the worker.                                         *)
(***************************************************************************)
Task(phase, val) == [phase |-> phase, val |-> val]

Classified(relativePath, decision) ==
  Task("classified", [relativePath |-> relativePath, decision |-> decision])

\* classifyOne resumed after `await reader.stat(...)`.  A rejection of stat
\* leaves classifyOne; otherwise stage 1 decides or stage 2 calls readHead.
\* Faulty variant of sizeStage: a size equal to maxBytes is over the limit.
sizeStageInclusive(relativePath, st) ==
  IF IsError(st) THEN Task("threw", IOError)
  ELSE IF st.sizeBytes >= maxBytes
    THEN Classified(relativePath, [category |-> "omit", reason |-> "SIZE_OVER_LIMIT"])
  ELSE Task("readHead", NoValue)

sizeStage(relativePath, st) ==
  IF IsError(st) THEN Task("threw", IOError)
  ELSE IF st.sizeBytes > maxBytes
    THEN Classified(relativePath, [category |-> "omit", reason |-> "SIZE_OVER_LIMIT"])
  ELSE Task("readHead", NoValue)

\* classifyOne resumed after `await reader.readHead(...)`: stages 2 and 3.
binaryCheck(buf) == isLikelyBinary(buf, DefaultBinaryOptions)

binaryStage(relativePath, head) ==
  IF IsError(head) THEN Task("threw", IOError)
  ELSE IF binaryCheck(head.bytes)
    THEN Classified(relativePath, [category |-> "omit", reason |-> "LIKELY_BINARY"])
  ELSE Classified(relativePath, classifyByName(relativePath))

(***************************************************************************)
(* application/use-cases/generate-report: the mapper passed to             *)
(* mapWithConcurrency, resumed after `await classifier.classifyOne(...)`.  *)
(***************************************************************************)
CLASSIFY_CONCURRENCY == 8

\* Faulty variant of rowOf: the catch branch gives no reason.
rowOfCatchNoReason(f, task) ==
  IF task.phase = "threw"
    THEN Task("fulfilled", [relativePath |-> f.relativePath, category |-> "omit"])
  ELSE IF task.val.decision.category = "code"
    THEN Task("fulfilled", [relativePath |-> f.relativePath, category |-> "code"])
  ELSE IF task.val.decision.category = "config"
    THEN Task("fulfilled", [relativePath |-> f.relativePath, category |-> "config"])
  ELSE Task("fulfilled", [relativePath |-> f.relativePath, category |-> "omit",
                          reason |-> task.val.decision.reason])

\* Faulty variant of rowOf: no catch, the error leaves the mapper.
rowOfNoCatch(f, task) ==
  IF task.phase = "threw"
    THEN Task("rejected", task.val)
  ELSE IF task.val.decision.category = "code"
    THEN Task("fulfilled", [relativePath |-> f.relativePath, category |-> "code"])
  ELSE IF task.val.decision.category = "config"
    THEN Task("fulfilled", [relativePath |-> f.relativePath, category |-> "config"])
  ELSE Task("fulfilled", [relativePath |-> f.relativePath, category |-> "omit",
                          reason |-> task.val.decision.reason])

\* Faulty variant of rowOf: the catch branch reports an encoding problem.
rowOfCatchUnknownEncoding(f, task) ==
  IF task.phase = "threw"
    THEN Task("fulfilled", [relativePath |-> f.relativePath, category |-> "omit",
                            reason |-> "UNKNOWN_ENCODING"])
  ELSE IF task.val.decision.category = "code"
    THEN Task("fulfilled", [relativePath |-> f.relativePath, category |-> "code"])
  ELSE IF task.val.decision.category = "config"
    THEN Task("fulfilled", [relativePath |-> f.relativePath, category |-> "config"])
  ELSE Task("fulfilled", [relativePath |-> f.relativePath, category |-> "omit",
                          reason |-> task.val.decision.reason])

rowOf(f, task) ==
  IF task.phase = "threw"
    THEN Task("fulfilled", [relativePath |-> f.relativePath, category |-> "omit",
                            reason |-> "READ_ERROR"])
  ELSE IF task.val.decision.category = "code"
    THEN Task("fulfilled", [relativePath |-> f.relativePath, category |-> "code"])
  ELSE IF task.val.decision.category = "config"
    THEN Task("fulfilled", [relativePath |-> f.relativePath, category |-> "config"])
  ELSE Task("fulfilled", [relativePath |-> f.relativePath, category |-> "omit",
                          reason |-> task.val.decision.reason])

(***************************************************************************)
(* shared/utils/concurrency: mapWithConcurrency.                           *)
(*                                                                         *)
(* A frame is [pc, i, task]: pc = "await" while the frame is suspended on  *)
(* `await mapper(items[i], i)`, "returned" once it returned, "threw" once  *)
(* the awaited rejection left it.  In the pool the frames are the          *)
(* worker() calls; in the sequential branch the single frame is the body   *)
(* of mapWithConcurrency itself, suspended in its for loop.                *)
(***************************************************************************)
NoTask == Task("none", NoValue)

\* The generic mapper's result for (item, index).
mapperValue(item, i) == [item |-> item, index |-> i]

\* mapper(items[i], i) called: the mapper runs to its first await.  The
\* classify mapper enters classifyOne, which calls reader.stat.
startMapper(i) ==
  IF mapper = "generic" THEN Task("run", NoValue) ELSE Task("stat", NoValue)

\* const i = next++; if (i >= items.length) return; ... await mapper(...)
\* The result is the frame and the cursor after the increment.
\* Faulty variant of claim: the cursor is read but not incremented.
claimNoIncrement(nxt) ==
  [worker |-> IF nxt >= Len(items)
                THEN [pc |-> "returned", i |-> nxt, task |-> NoTask]
                ELSE [pc |-> "await", i |-> nxt, task |-> startMapper(nxt)],
   next |-> nxt]

\* Faulty variant of claim: a worker that resumes after another worker has
\* thrown stops instead of claiming (a pool that cancels on rejection).
claimUnlessCancelled(nxt) ==
  [worker |-> IF nxt >= Len(items) \/ \E v \in 1..Len(workers) : workers[v].pc = "threw"
                THEN [pc |-> "returned", i |-> nxt, task |-> NoTask]
                ELSE [pc |-> "await", i |-> nxt, task |-> startMapper(nxt)],
   next |-> nxt + 1]

claim(nxt) ==
  [worker |-> IF nxt >= Len(items)
                THEN [pc |-> "returned", i |-> nxt, task |-> NoTask]
                ELSE [pc |-> "await", i |-> nxt, task |-> startMapper(nxt)],
   next |-> nxt + 1]

\* History bookkeeping of a frame that has just been (re)started.
noteCall(c, w) == IF w.pc = "await" THEN [c EXCEPT ![w.i + 1] = @ + 1] ELSE c

noteStat(log, w) ==
  IF w.pc = "await" /\ mapper = "classify" THEN log \cup {<<"stat", w.i>>} ELSE log

\* Math.min(concurrency, items.length)
\* Faulty variant of poolSize: one worker per unit of concurrency.
poolSizeUnbounded(c, len) == c

poolSize(c, len) == Min(c, len)

\* Array.from({ length: n }, () => worker()): the workers are started one
\* after the other, each running synchronously up to its first await.
RECURSIVE spawn(_, _)
spawn(n, st) ==
  IF Len(st.workers) >= n THEN st
  ELSE LET c == claim(st.next)
       IN  spawn(n, [workers |-> Append(st.workers, c.worker),
                     next |-> c.next,
                     calls |-> noteCall(st.calls, c.worker),
                     readerLog |-> noteStat(st.readerLog, c.worker)])

\* The call of mapWithConcurrency up to its first await (or its return).
CallSequential ==
  /\ mode = "idle"
  /\ concurrency <= 1
  /\ mode' = "seq"
  /\ out' = << >>
  /\ IF 0 < Len(items)
       THEN LET w == [pc |-> "await", i |-> 0, task |-> startMapper(0)]
            IN  /\ workers' = <<w>>
                /\ calls' = noteCall(calls, w)
                /\ readerLog' = noteStat(readerLog, w)
                /\ UNCHANGED <<status, returned>>
       ELSE /\ workers' = <<[pc |-> "returned", i |-> 0, task |-> NoTask]>>
            /\ status' = "resolved"
            /\ returned' = out'
            /\ UNCHANGED <<calls, readerLog>>
  /\ UNCHANGED <<walkVars, probe, mapper, items, concurrency, rejects, disk, next, results, summary>>

CallPool ==
  /\ mode = "idle"
  /\ concurrency > 1
  /\ mode' = "pool"
  /\ LET st == spawn(poolSize(concurrency, Len(items)),
                     [workers |-> << >>, next |-> 0, calls |-> calls,
                      readerLog |-> readerLog])
     IN  /\ workers' = st.workers
         /\ next' = st.next
         /\ calls' = st.calls
         /\ readerLog' = st.readerLog
  /\ results' = [k \in 1..Len(items) |-> Empty]
  /\ UNCHANGED <<walkVars, probe, mapper, items, concurrency, rejects, disk, out, status, returned, summary>>

\* The generic mapper settles: it fulfils with its value, or rejects.
GenericFulfil(w) ==
  /\ workers[w].pc = "await"
  /\ workers[w].task.phase = "run"
  /\ workers[w].i \notin rejects
  /\ workers' = [workers EXCEPT ![w].task =
                   Task("fulfilled", mapperValue(items[workers[w].i + 1], workers[w].i))]
  /\ UNCHANGED <<walkVars, probe, mapper, items, concurrency, rejects, disk, mode, next, results,
                 out, status, returned, calls, readerLog, summary>>

GenericReject(w) ==
  /\ workers[w].pc = "await"
  /\ workers[w].task.phase = "run"
  /\ workers[w].i \in rejects
  /\ workers' = [workers EXCEPT ![w].task = Task("rejected", IOError)]
  /\ UNCHANGED <<walkVars, probe, mapper, items, concurrency, rejects, disk, mode, next, results,
                 out, status, returned, calls, readerLog, summary>>

\* results[i] = <the awaited value>, at the slot the worker claimed.
\* Faulty variant of store: the slot is taken from the shared cursor.
storeAtCursor(res, w, nxt) == [res EXCEPT ![Min(nxt, Len(res))] = w.task.val]

store(res, w, nxt) == [res EXCEPT ![w.i + 1] = w.task.val]

\* A pool worker resumes after its await: it stores the value and loops to
\* the next claim, or the rejection leaves worker().
WorkerResume(w) ==
  /\ mode = "pool"
  /\ workers[w].pc = "await"
  /\ workers[w].task.phase = "fulfilled"
  /\ results' = store(results, workers[w], next)
  /\ LET c == claim(next)
     IN  /\ workers' = [workers EXCEPT ![w] = c.worker]
         /\ next' = c.next
         /\ calls' = noteCall(calls, c.worker)
         /\ readerLog' = noteStat(readerLog, c.worker)
  /\ UNCHANGED <<walkVars, probe, mapper, items, concurrency, rejects, disk, mode, out, status,
                 returned, summary>>

WorkerThrow(w) ==
  /\ mode = "pool"
  /\ workers[w].pc = "await"
  /\ workers[w].task.phase = "rejected"
  /\ workers' = [workers EXCEPT ![w].pc = "threw"]
  /\ UNCHANGED <<walkVars, probe, mapper, items, concurrency, rejects, disk, mode, next, results,
                 out, status, returned, calls, readerLog, summary>>

\* await Promise.all(workers); return results
PoolReturn ==
  /\ mode = "pool"
  /\ status = "pending"
  /\ \A w \in 1..Len(workers) : workers[w].pc = "returned"
  /\ status' = "resolved"
  /\ returned' = results
  /\ UNCHANGED <<walkVars, probe, mapper, items, concurrency, rejects, disk, mode, workers, next,
                 results, out, calls, readerLog, summary>>

PoolThrow ==
  /\ mode = "pool"
  /\ status = "pending"
  /\ \E w \in 1..Len(workers) : workers[w].pc = "threw"
  /\ status' = "rejected"
  /\ UNCHANGED <<walkVars, probe, mapper, items, concurrency, rejects, disk, mode, workers, next,
                 results, out, returned, calls, readerLog, summary>>

\* The for loop's i++.
\* Faulty variant of seqNext: the loop skips an index.
seqNextSkip(i) == i + 2

seqNext(i) == i + 1

\* The sequential branch resumes: out.push(value); i++; then the next
\* mapper call, or `return out`.
SeqResume ==
  /\ mode = "seq"
  /\ workers[1].pc = "await"
  /\ workers[1].task.phase = "fulfilled"
  /\ out' = Append(out, workers[1].task.val)
  /\ LET i == seqNext(workers[1].i)
     IN  IF i < Len(items)
           THEN LET w == [pc |-> "await", i |-> i, task |-> startMapper(i)]
                IN  /\ workers' = <<w>>
                    /\ calls' = noteCall(calls, w)
                    /\ readerLog' = noteStat(readerLog, w)
                    /\ UNCHANGED <<status, returned>>
           ELSE /\ workers' = <<[pc |-> "returned", i |-> i, task |-> NoTask]>>
                /\ status' = "resolved"
                /\ returned' = out'
                /\ UNCHANGED <<calls, readerLog>>
  /\ UNCHANGED <<walkVars, probe, mapper, items, concurrency, rejects, disk, mode, next, results, summary>>

SeqThrow ==
  /\ mode = "seq"
  /\ workers[1].pc = "await"
  /\ workers[1].task.phase = "rejected"
  /\ workers' = [workers EXCEPT ![1].pc = "threw"]
  /\ status' = "rejected"
  /\ UNCHANGED <<walkVars, probe, mapper, items, concurrency, rejects, disk, mode, next, results,
                 out, returned, calls, readerLog, summary>>

(***************************************************************************)
(* The classify mapper's steps: classifyOne resumes after each reader      *)
(* call, then the mapper resumes after classifyOne.                        *)
(***************************************************************************)
pathOf(w) == items[workers[w].i + 1].relativePath

StatDone(w) ==
  /\ workers[w].pc = "await"
  /\ workers[w].task.phase = "stat"
  /\ LET t == sizeStage(pathOf(w), readerStat(pathOf(w)))
     IN  /\ workers' = [workers EXCEPT ![w].task = t]
         /\ readerLog' = IF t.phase = "readHead"
                           THEN readerLog \cup {<<"readHead", workers[w].i>>}
                           ELSE readerLog
  /\ UNCHANGED <<walkVars, probe, mapper, items, concurrency, rejects, disk, mode, next, results,
                 out, status, returned, calls, summary>>

ReadHeadDone(w) ==
  /\ workers[w].pc = "await"
  /\ workers[w].task.phase = "readHead"
  /\ LET head == readerReadHead(pathOf(w), headSampleBytes)
     IN  /\ workers' = [workers EXCEPT ![w].task = binaryStage(pathOf(w), head)]
         /\ readerLog' = IF IsError(head) THEN readerLog
                         ELSE readerLog \cup {<<"binaryCheck", workers[w].i>>}
  /\ UNCHANGED <<walkVars, probe, mapper, items, concurrency, rejects, disk, mode, next, results,
                 out, status, returned, calls, summary>>

MapperReturn(w) ==
  /\ workers[w].pc = "await"
  /\ workers[w].task.phase \in {"classified", "threw"}
  /\ workers' = [workers EXCEPT ![w].task = rowOf(items[workers[w].i + 1], workers[w].task)]
  /\ UNCHANGED <<walkVars, probe, mapper, items, concurrency, rejects, disk, mode, next, results,
                 out, status, returned, calls, readerLog, summary>>

(***************************************************************************)
(* generateReport around the batch.                                        *)
(***************************************************************************)
NoSummary == [pending |-> TRUE]

\* files.length === 0: the warning, no batch and no summary.
ReportEmpty ==
  /\ mapper = "classify"
  /\ mode = "idle"
  /\ Len(items) = 0
  /\ mode' = "skipped"
  /\ UNCHANGED <<walkVars, probe, mapper, items, concurrency, rejects, disk, workers, next, results,
                 out, status, returned, calls, readerLog, summary>>

ReportCall ==
  /\ mapper = "classify"
  /\ Len(items) # 0
  /\ CallPool

\* for (const result of results) { countCode++ | countConfig++ | countOmit++ }
RECURSIVE countRows(_, _)
countRows(rows, acc) ==
  IF rows = << >> THEN acc
  ELSE LET r == Head(rows)
       IN  countRows(Tail(rows),
             IF r.category = "code" THEN [acc EXCEPT !.countCode = @ + 1]
             ELSE IF r.category = "config" THEN [acc EXCEPT !.countConfig = @ + 1]
             ELSE [acc EXCEPT !.countOmit = @ + 1])

Summarise ==
  /\ mapper = "classify"
  /\ status = "resolved"
  /\ summary = NoSummary
  /\ summary' = countRows(returned,
                  [countCode |-> 0, countConfig |-> 0, countOmit |-> 0,
                   total |-> Len(items)])
  /\ UNCHANGED <<walkVars, probe, mapper, items, concurrency, rejects, disk, mode, workers, next,
                 results, out, status, returned, calls, readerLog>>

(***************************************************************************)
(* domain/policies/exclusions: the default exclusion tables and the        *)
(* lower-cased sets generateReport hands to discover.                      *)
(***************************************************************************)
DEFAULT_EXCLUDED_DIR_NAMES ==
  { ".git", "node_modules", "dist", "build", "out", ".next", ".vercel", ".turbo",
    "coverage", ".nyc_output", ".idea", ".vscode", "venv", ".venv",
    "common/autoinstallers", "pnpm-store", "temp" }

DEFAULT_EXCLUDED_FILE_NAMES == {".DS_Store", "Thumbs.db"}

buildExcludedDirNameSetLower == {toLowerCase(s) : s \in DEFAULT_EXCLUDED_DIR_NAMES}

buildExcludedFileNameSetLower == {toLowerCase(s) : s \in DEFAULT_EXCLUDED_FILE_NAMES}

(***************************************************************************)
(* node:path on a POSIX host, for the paths the walker builds: the root is *)
(* absolute and normalised, a name holds no '/', so join is concatenation  *)
(* and relative strips the root prefix.  A backslash is an ordinary        *)
(* character of a POSIX file name.                                         *)
(***************************************************************************)
Root == "/r"

join(dirAbs, name) == dirAbs \o "/" \o name

relative(from, to) == IF to = from THEN "" ELSE SubSeq(to, Len(from) + 2, Len(to))

(***************************************************************************)
(* shared/utils/paths: toPosixRelativePath.                                *)
(***************************************************************************)
\* s.replace(/\\/g, '/') from position k on.
RECURSIVE replaceBackslashFrom(_, _)
replaceBackslashFrom(s, k) ==
  IF k > Len(s) THEN ""
  ELSE (IF CharAt(s, k) = "\\" THEN "/" ELSE CharAt(s, k)) \o replaceBackslashFrom(s, k + 1)

\* s.replace(/\/+/g, '/') from position k on: a '/' after a '/' is dropped.
RECURSIVE collapseSlashesFrom(_, _)
collapseSlashesFrom(s, k) ==
  IF k > Len(s) THEN ""
  ELSE (IF k > 1 /\ CharAt(s, k) = "/" /\ CharAt(s, k - 1) = "/" THEN "" ELSE CharAt(s, k))
         \o collapseSlashesFrom(s, k + 1)

\* s.replace(/^(\.\/)+/, '')
RECURSIVE stripLeadingDotSlash(_)
stripLeadingDotSlash(s) ==
  IF startsWith(s, "./") THEN stripLeadingDotSlash(SubSeq(s, 3, Len(s))) ELSE s

toPosixRelativePath(relPath) ==
  LET replaced == collapseSlashesFrom(replaceBackslashFrom(relPath, 1), 1)
  IN  stripLeadingDotSlash(replaced)

(***************************************************************************)
(* String.prototype.localeCompare(other, 'en', {numeric: true}), the ICU   *)
(* collation of the runtime, on the characters the model's names use.      *)
(* Primary level: punctuation before digits before letters, letters        *)
(* without regard to case, and a run of decimal digits compared by its     *)
(* numeric value, so leading zeros do not count.  Tertiary level, used     *)
(* when the primary level ties: lower case before upper case.  Two strings *)
(* that tie on both levels compare as 0.                                   *)
(***************************************************************************)
Digits == "0123456789"

CollationOrder == "_-./0123456789abcdefghijklmnopqrstuvwxyz"

indexIn(alphabet, c) ==
  IF \E k \in 1..Len(alphabet) : CharAt(alphabet, k) = c
    THEN CHOOSE k \in 1..Len(alphabet) : CharAt(alphabet, k) = c
    ELSE 0

charsOf(alphabet) == {CharAt(alphabet, k) : k \in 1..Len(alphabet)}

\* The value of each decimal digit.
DigitValues == [c \in charsOf(Digits) |-> indexIn(Digits, c) - 1]

\* The primary weight of each character: its place in the collation order,
\* an upper-case letter weighing as its lower-case form.
PrimaryWeights ==
  [c \in charsOf(CollationOrder) \cup charsOf(UpperLetters) |->
     indexIn(CollationOrder, toLowerCaseChar(c))]

isDigit(c) == c \in DOMAIN DigitValues

primaryWeight(c) == IF c \in DOMAIN PrimaryWeights THEN PrimaryWeights[c] ELSE 0

\* The last position of the digit run that starts at position k of s.
RECURSIVE digitRunEnd(_, _)
digitRunEnd(s, k) ==
  IF k < Len(s) /\ isDigit(CharAt(s, k + 1)) THEN digitRunEnd(s, k + 1) ELSE k

\* The number written by the digits of s at positions k..e, after acc.
RECURSIVE digitRunValue(_, _, _, _)
digitRunValue(s, k, e, acc) ==
  IF k > e THEN acc
  ELSE digitRunValue(s, k + 1, e, 10 * acc + DigitValues[CharAt(s, k)])

sign(x, y) == IF x < y THEN -1 ELSE IF x > y THEN 1 ELSE 0

RECURSIVE primaryCompareFrom(_, _, _, _)
primaryCompareFrom(a, i, b, j) ==
  IF i > Len(a) \/ j > Len(b) THEN sign(Len(a) - i, Len(b) - j)
  ELSE IF isDigit(CharAt(a, i)) /\ isDigit(CharAt(b, j))
    THEN LET ie == digitRunEnd(a, i)
             je == digitRunEnd(b, j)
             c  == sign(digitRunValue(a, i, ie, 0), digitRunValue(b, j, je, 0))
         IN  IF c # 0 THEN c ELSE primaryCompareFrom(a, ie + 1, b, je + 1)
    ELSE LET c == sign(primaryWeight(CharAt(a, i)), primaryWeight(CharAt(b, j)))
         IN  IF c # 0 THEN c ELSE primaryCompareFrom(a, i + 1, b, j + 1)

\* The characters of s from position k on that are not digits.
RECURSIVE nonDigitsFrom(_, _)
nonDigitsFrom(s, k) ==
  IF k > Len(s) THEN ""
  ELSE (IF isDigit(CharAt(s, k)) THEN "" ELSE CharAt(s, k)) \o nonDigitsFrom(s, k + 1)

isUpper(c) == c \in charsOf(UpperLetters)

\* Case difference of two strings of equal primary weights, from position k.
RECURSIVE tertiaryCompareFrom(_, _, _)
tertiaryCompareFrom(a, b, k) ==
  IF k > Len(a) \/ k > Len(b) THEN 0
  ELSE IF isUpper(CharAt(a, k)) = isUpper(CharAt(b, k)) THEN tertiaryCompareFrom(a, b, k + 1)
  ELSE IF isUpper(CharAt(b, k)) THEN -1 ELSE 1

localeCompare(a, b) ==
  LET p == primaryCompareFrom(a, 1, b, 1)
  IN  IF p # 0 THEN p
      ELSE tertiaryCompareFrom(nonDigitsFrom(a, 1), nonDigitsFrom(b, 1), 1)

(***************************************************************************)
(* Array.prototype.sort with the walker's comparator.  The sort is stable: *)
(* elements the comparator reports as equal keep their relative order.     *)
(***************************************************************************)
\* The slot element k of arr lands in: behind every element that sorts before
\* it and behind every earlier element the comparator reports as equal.
sortedPosition(arr, k) ==
  1 + Cardinality({j \in 1..Len(arr) :
        \/ localeCompare(arr[j].relativePath, arr[k].relativePath) < 0
        \/ j < k /\ localeCompare(arr[j].relativePath, arr[k].relativePath) = 0})

sortByRelativePath(arr) ==
  [p \in 1..Len(arr) |-> arr[CHOOSE k \in 1..Len(arr) : sortedPosition(arr, k) = p]]

(***************************************************************************)
(* The file system under the root.  A node is                              *)
(*   [abs, dir, name, kind, dtype, target, fault]                          *)
(* kind   what lstat reports: "dir", "file", "symlink", "other" (a FIFO,   *)
(*        a socket, a device) or "none" (the entry vanished after being    *)
(*        listed);                                                         *)
(* dtype  what the directory entry reports: "dir", "file", "symlink" or    *)
(*        "unknown" (none of isSymbolicLink, isDirectory, isFile holds);   *)
(* target for a symlink, the kind of what it points to;                    *)
(* fault  the system call that fails on this node: "none", "lstat",        *)
(*        "open", "read" or "close".                                       *)
(***************************************************************************)
Node(dirAbs, name, kind, dtype, target, fault) ==
  [abs |-> join(dirAbs, name), dir |-> dirAbs, name |-> name, kind |-> kind,
   dtype |-> dtype, target |-> target, fault |-> fault]

RootNode(kind, target, fault) ==
  [abs |-> Root, dir |-> "", name |-> "r", kind |-> kind, dtype |-> kind,
   target |-> target, fault |-> fault]

nodeAt(abs) == CHOOSE n \in tree : n.abs = abs

FsError(op) == [error |-> op]

\* fs.lstat: the kind of the node itself, links not followed.
lstat(abs) ==
  IF nodeAt(abs).fault = "lstat" \/ nodeAt(abs).kind = "none" THEN FsError("lstat")
  ELSE [kind |-> nodeAt(abs).kind]

\* fs.stat: the kind of what the path resolves to, links followed.
stat(abs) ==
  IF nodeAt(abs).fault = "lstat" \/ nodeAt(abs).kind = "none" THEN FsError("lstat")
  ELSE IF nodeAt(abs).kind = "symlink" THEN [kind |-> nodeAt(abs).target]
  ELSE [kind |-> nodeAt(abs).kind]

\* fs.opendir: follows links; the entries a handle on the directory lists.
opendir(abs) ==
  IF nodeAt(abs).fault = "open" \/ stat(abs) # [kind |-> "dir"] THEN FsError("open")
  ELSE [entries |-> {n \in tree : n.dir = abs}]

(***************************************************************************)
(* adapters/outbound/discovery/fs-walker: discover.                        *)
(*                                                                         *)
(* walkPc names the await the async function is suspended on:              *)
(*   "idle" -> "lstatRoot" -> { "opendir" -> "read" <-> "reprobe"          *)
(*                              -> "close" }* -> "resolved" | "rejected"   *)
(* dirHandle = [dir, remaining, cur]: the directory being opened or read,  *)
(* the entries its handle has not returned yet, the entry being re-probed. *)
(***************************************************************************)
NoHandle == [dir |-> "", remaining |-> {}, cur |-> NoValue]
NoError == ""

excludedDirs == buildExcludedDirNameSetLower
excludedFiles == buildExcludedFileNameSetLower

shouldExcludeDirNoLower(name) == name \in excludedDirs

shouldExcludeDir(name) == toLowerCase(name) \in excludedDirs

shouldExcludeFile(name) == toLowerCase(name) \in excludedFiles

\* `out` after emitFile(absPath, name).
emitFile(outv, absPath, name) ==
  IF shouldExcludeFile(name) THEN outv
  ELSE LET rel == toPosixRelativePath(relative(Root, absPath))
       IN  Append(outv, [relativePath |-> rel])

\* Faulty variant of enqueueDir: the directory is pushed twice.
enqueueDirTwice(stk, absPath, name) ==
  IF ~shouldExcludeDir(name) THEN Append(Append(stk, absPath), absPath) ELSE stk

\* `stack` after enqueueDir(absPath, name).
enqueueDir(stk, absPath, name) ==
  IF ~shouldExcludeDir(name) THEN Append(stk, absPath) ELSE stk

\* The root validation: the error thrown for what lstat reported, if any.
validateRootNoSymlinkTest(rootStat) ==
  IF rootStat.kind # "dir" THEN "RootNotDirectory" ELSE NoError

validateRoot(rootStat) ==
  IF rootStat.kind = "symlink" THEN "RootIsSymlink"
  ELSE IF rootStat.kind # "dir" THEN "RootNotDirectory"
  ELSE NoError

\* The top of `while (stack.length > 0)`: pop a directory and ask for its
\* handle, or leave the loop, sort and return.
LoopTop(stk, outv) ==
  IF Len(stk) > 0
    THEN /\ walkPc' = "opendir"
         /\ stack' = SubSeq(stk, 1, Len(stk) - 1)
         /\ dirHandle' = [dir |-> stk[Len(stk)], remaining |-> {}, cur |-> NoValue]
         /\ popped' = Append(popped, stk[Len(stk)])
         /\ UNCHANGED <<walkResult, walkError>>
    ELSE /\ walkPc' = "resolved"
         /\ walkResult' = sortByRelativePath(outv)
         /\ stack' = stk
         /\ dirHandle' = NoHandle
         /\ UNCHANGED <<walkError, popped>>

Reject(err) ==
  /\ walkPc' = "rejected"
  /\ walkError' = err
  /\ dirHandle' = NoHandle
  /\ UNCHANGED <<stack, walkResult, popped>>

\* discover is called: resolve the root, ask for its lstat.
DiscoverCall ==
  /\ walkPc = "idle"
  /\ walkPc' = "lstatRoot"
  /\ UNCHANGED <<tree, stack, walkOut, dirHandle, thrown, walkResult, walkError,
                 opened, emitted, popped, closed, mapVars, probe>>

\* `await lstat(root)` settles: a rejection propagates, a root that is a
\* symlink or not a directory throws, otherwise the loop starts.
RootLstatDone ==
  /\ walkPc = "lstatRoot"
  /\ LET rootStat == lstat(Root)
     IN  IF IsError(rootStat) THEN Reject(rootStat.error) /\ UNCHANGED walkOut
         ELSE IF validateRoot(rootStat) # NoError
           THEN Reject(validateRoot(rootStat)) /\ UNCHANGED walkOut
         ELSE /\ walkOut' = << >>
              /\ LoopTop(<<Root>>, << >>)
  /\ UNCHANGED <<tree, thrown, opened, emitted, closed, mapVars, probe>>

\* What the catch around opendir does with a failure: skip the directory.
afterOpenFailureRethrow == Reject("open")

afterOpenFailure == LoopTop(stack, walkOut)

\* `await opendir(dirAbs)` settles.
OpendirDone ==
  /\ walkPc = "opendir"
  /\ LET h == opendir(dirHandle.dir)
     IN  IF IsError(h)
           THEN /\ afterOpenFailure
                /\ UNCHANGED <<opened>>
           ELSE /\ dirHandle' = [dirHandle EXCEPT !.remaining = h.entries]
                /\ opened' = Append(opened, dirHandle.dir)
                /\ walkPc' = "read"
                /\ UNCHANGED <<stack, walkResult, walkError, popped>>
  /\ UNCHANGED <<tree, walkOut, thrown, emitted, closed, mapVars, probe>>

\* The branch taken for an entry seen as `kind`: a directory is enqueued, a
\* regular file is emitted, anything else is passed over.
Dispatch(e, kind) ==
  CASE kind = "dir"  -> /\ stack' = enqueueDir(stack, join(dirHandle.dir, e.name), e.name)
                        /\ UNCHANGED <<walkOut, emitted>>
    [] kind = "file" -> /\ walkOut' = emitFile(walkOut, join(dirHandle.dir, e.name), e.name)
                        /\ emitted' = IF shouldExcludeFile(e.name) THEN emitted
                                      ELSE Append(emitted, join(dirHandle.dir, e.name))
                        /\ UNCHANGED stack
    [] OTHER         -> UNCHANGED <<stack, walkOut, emitted>>

\* `await dirHandle.read()` settles: a rejection leaves the try block for
\* the finally, null ends the directory, an entry is dispatched on its
\* type, or re-probed with lstat when its type is unknown.
ReadDone ==
  /\ walkPc = "read"
  /\ IF nodeAt(dirHandle.dir).fault = "read"
       THEN /\ thrown' = "read"
            /\ walkPc' = "close"
            /\ UNCHANGED <<dirHandle, stack, walkOut, emitted>>
     ELSE IF dirHandle.remaining = {}
       THEN /\ walkPc' = "close"
            /\ UNCHANGED <<dirHandle, thrown, stack, walkOut, emitted>>
     ELSE \E dirent \in dirHandle.remaining :
            IF dirent.dtype = "unknown"
              THEN /\ dirHandle' = [dirHandle EXCEPT !.remaining = @ \ {dirent},
                                                     !.cur = dirent]
                   /\ walkPc' = "reprobe"
                   /\ UNCHANGED <<thrown, stack, walkOut, emitted>>
              ELSE /\ dirHandle' = [dirHandle EXCEPT !.remaining = @ \ {dirent}]
                   /\ Dispatch(dirent, dirent.dtype)
                   /\ UNCHANGED <<walkPc, thrown>>
  /\ UNCHANGED <<tree, walkResult, walkError, opened, popped, closed, mapVars, probe>>

\* The system call that re-probes an entry of unknown type.
reprobeFollowingLinks(absChild) == stat(absChild)

reprobe(absChild) == lstat(absChild)

\* `await lstat(absChild)` settles: a failure is caught and the entry is
\* passed over, otherwise the entry is dispatched on what lstat reported.
ReprobeDone ==
  /\ walkPc = "reprobe"
  /\ LET dirent == dirHandle.cur
         st == reprobe(join(dirHandle.dir, dirent.name))
     IN  IF IsError(st) THEN UNCHANGED <<stack, walkOut, emitted>>
         ELSE Dispatch(dirent, st.kind)
  /\ dirHandle' = [dirHandle EXCEPT !.cur = NoValue]
  /\ walkPc' = "read"
  /\ UNCHANGED <<tree, thrown, walkResult, walkError, opened, popped, closed, mapVars, probe>>

\* `await dirHandle.close()` in the finally block settles: its rejection
\* propagates, otherwise a pending exception is rethrown, otherwise the
\* loop goes on.
CloseDone ==
  /\ walkPc = "close"
  /\ IF nodeAt(dirHandle.dir).fault = "close" THEN Reject("close")
     ELSE IF thrown # NoError THEN Reject(thrown)
     ELSE LoopTop(stack, walkOut)
  /\ closed' = IF nodeAt(dirHandle.dir).fault = "close" THEN closed
               ELSE Append(closed, dirHandle.dir)
  /\ UNCHANGED <<tree, walkOut, thrown, opened, emitted, mapVars, probe>>

(***************************************************************************)
(* Inputs.                                                                 *)
(***************************************************************************)
ItemValues == {"a", "b"}

\* Byte contents a file may have.
HelloWorld == <<104, 101, 108, 108, 111, 9, 119, 111, 114, 108, 100>>
WithNul == <<97, 0, 98>>
MostlyControl == <<128, 129, 65>>
AtThreshold == <<1, 2, 3, 97, 97, 97, 97, 97, 97, 97>>
AboveThreshold == <<1, 2, 3, 4, 97, 97, 97, 97, 97, 97>>
NulAfterSample ==
  [k \in 1..(HEAD_SAMPLE_BYTES + 1) |-> IF k = HEAD_SAMPLE_BYTES + 1 THEN 0 ELSE 97]
NulAtSampleEnd ==
  [k \in 1..(HEAD_SAMPLE_BYTES + 1) |-> IF k = HEAD_SAMPLE_BYTES THEN 0 ELSE 97]

StatOutcomes ==
  {IOError} \cup
  {[size |-> n] : n \in {0, 11, DEFAULT_MAX_BYTES - 1, DEFAULT_MAX_BYTES,
                         DEFAULT_MAX_BYTES + 1, 300000}}

ReadOutcomes ==
  {IOError} \cup
  {[bytes |-> b] : b \in {<< >>, HelloWorld, WithNul, MostlyControl, AtThreshold,
                          AboveThreshold, NulAfterSample, NulAtSampleEnd}}

ClassifyPaths ==
  { ".github/workflows/ci.yml", ".GitHub/Action.TS", ".github", ".githubx/a.js",
    "docs/.github/x.md", "src/main.ts", "package.json", "lib/Package.JSON",
    "src/package.json.bak", "Dockerfile", "docker-compose.yml", "Makefile",
    "src/app.component.html", ".husky/pre-commit" }

File(p, st, rd) == [relativePath |-> p, stat |-> st, read |-> rd]

\* A small repository, listed in the order discovery returns it.
Catalogue ==
  << File(".github/workflows/ci.yml", [size |-> 11], [bytes |-> HelloWorld]),
     File("a.ts", [size |-> 11], [bytes |-> HelloWorld]),
     File("big.bin", [size |-> 300000], [bytes |-> MostlyControl]),
     File("broken.txt", IOError, [bytes |-> HelloWorld]),
     File("img.png", [size |-> 3], [bytes |-> WithNul]),
     File("locked.md", [size |-> 11], IOError),
     File("package.json", [size |-> 11], [bytes |-> HelloWorld]) >>

\* The elements of fs at the indices in S, in increasing index order.
RECURSIVE pick(_, _)
pick(fs, S) ==
  IF S = {} THEN << >>
  ELSE LET k == CHOOSE x \in S : \A y \in S : x <= y
       IN  <<fs[k]>> \o pick(fs, S \ {k})

entriesOf(fs) == [k \in 1..Len(fs) |-> [relativePath |-> fs[k].relativePath]]

diskOf(fs) ==
  [p \in {fs[k].relativePath : k \in 1..Len(fs)} |->
     LET k == CHOOSE j \in 1..Len(fs) : fs[j].relativePath = p
     IN  [stat |-> fs[k].stat, read |-> fs[k].read]]

\* The directory entries a tree is drawn from.
Universe ==
  { Node(Root, "a.ts", "file", "file", "", "none"),
    Node(Root, "a1", "file", "file", "", "none"),
    Node(Root, "a01", "file", "file", "", "none"),
    Node(Root, ".DS_Store", "file", "file", "", "none"),
    Node(Root, "ufile", "file", "unknown", "", "none"),
    Node(Root, "a\\b", "file", "file", "", "none"),
    Node(Root, "a", "dir", "unknown", "", "none"),
    Node(join(Root, "a"), "b", "file", "unknown", "", "none"),
    Node(Root, "node_modules", "dir", "dir", "", "none"),
    Node(join(Root, "node_modules"), "b.js", "file", "file", "", "none"),
    Node(Root, "src", "dir", "dir", "", "none"),
    Node(join(Root, "src"), "Thumbs.db", "file", "file", "", "none"),
    Node(join(Root, "src"), "Dist", "dir", "dir", "", "none"),
    Node(join(join(Root, "src"), "Dist"), "o.js", "file", "file", "", "none"),
    Node(Root, "link", "symlink", "symlink", "dir", "none"),
    Node(Root, "ulink", "symlink", "unknown", "dir", "none"),
    Node(join(Root, "ulink"), "u", "file", "file", "", "none"),
    Node(Root, "locked", "dir", "dir", "", "open"),
    Node(join(Root, "locked"), "f", "file", "file", "", "none"),
    Node(Root, "bad", "dir", "dir", "", "read"),
    Node(Root, "stuck", "dir", "dir", "", "close"),
    Node(Root, "ghost", "none", "unknown", "", "none"),
    Node(Root, "pipe", "other", "unknown", "", "none") }

\* What the root path may be.
RootVariants ==
  { RootNode("dir", "", "none"), RootNode("symlink", "dir", "none"),
    RootNode("file", "", "none"), RootNode("other", "", "none"),
    RootNode("dir", "", "lstat"), RootNode("dir", "", "open"),
    RootNode("dir", "", "read"), RootNode("dir", "", "close") }

\* The sets of at most k entries in which every entry's directory is present.
RECURSIVE entrySets(_)
entrySets(k) ==
  IF k = 0 THEN {{}}
  ELSE LET smaller == entrySets(k - 1)
           fits(S) == {n \in Universe : n.dir = Root \/ \E p \in S : p.abs = n.dir}
       IN  smaller \cup UNION {{S \cup {n} : n \in fits(S)} : S \in smaller}

\* The tree of the README: a.ts, node_modules/b.js, .git/HEAD, big.bin.
ExampleTree ==
  { RootNode("dir", "", "none"),
    Node(Root, "a.ts", "file", "file", "", "none"),
    Node(Root, "node_modules", "dir", "dir", "", "none"),
    Node(join(Root, "node_modules"), "b.js", "file", "file", "", "none"),
    Node(Root, ".git", "dir", "dir", "", "none"),
    Node(join(Root, ".git"), "HEAD", "file", "file", "", "none"),
    Node(Root, "big.bin", "file", "file", "", "none") }

\* A root with a directory at the relative path common/autoinstallers.
AutoinstallersTree ==
  { RootNode("dir", "", "none"),
    Node(Root, "common", "dir", "dir", "", "none"),
    Node(join(Root, "common"), "autoinstallers", "dir", "dir", "", "none"),
    Node(join(join(Root, "common"), "autoinstallers"), "x.js", "file", "file", "", "none") }

Trees ==
  {{r} \cup S : r \in RootVariants, S \in entrySets(MaxEntries)}
    \cup {ExampleTree, AutoinstallersTree}

\* The walker before discover is called.
WalkIdle ==
  /\ walkPc = "idle"
  /\ stack = << >>
  /\ walkOut = << >>
  /\ dirHandle = NoHandle
  /\ thrown = NoError
  /\ walkResult = << >>
  /\ walkError = NoError
  /\ opened = << >>
  /\ emitted = << >>
  /\ popped = << >>
  /\ closed = << >>

InitCommon ==
  /\ mode = "idle"
  /\ workers = << >>
  /\ next = 0
  /\ results = << >>
  /\ out = << >>
  /\ status = "pending"
  /\ returned = << >>
  /\ calls = [k \in 1..Len(items) |-> 0]
  /\ readerLog = {}
  /\ summary = NoSummary

\* mapWithConcurrency on its own, with a mapper that fulfils or rejects.
InitMap ==
  /\ mapper = "generic"
  /\ items \in UNION {[1..n -> ItemValues] : n \in 0..MaxItems}
  /\ concurrency \in 0..(2 * MaxItems)
  /\ rejects \in SUBSET (0..(Len(items) - 1))
  /\ disk = << >>
  /\ InitCommon
  /\ tree = {}
  /\ WalkIdle
  /\ probe = NoValue

\* generateReport on a repository of up to MaxFiles discovered files.
InitReport ==
  /\ mapper = "classify"
  /\ \E S \in SUBSET (1..Len(Catalogue)) :
       /\ Cardinality(S) <= MaxFiles
       /\ items = entriesOf(pick(Catalogue, S))
       /\ disk = diskOf(pick(Catalogue, S))
  /\ concurrency = CLASSIFY_CONCURRENCY
  /\ rejects = {}
  /\ InitCommon
  /\ tree = {}
  /\ WalkIdle
  /\ probe = NoValue

\* generateReport on a repository of one file, of any path, size and content.
InitClassify ==
  /\ mapper = "classify"
  /\ \E p \in ClassifyPaths, st \in StatOutcomes, rd \in ReadOutcomes :
       /\ items = entriesOf(<<File(p, st, rd)>>)
       /\ disk = diskOf(<<File(p, st, rd)>>)
  /\ concurrency = CLASSIFY_CONCURRENCY
  /\ rejects = {}
  /\ InitCommon
  /\ tree = {}
  /\ WalkIdle
  /\ probe = NoValue

\* discover on one of the given trees, with the default exclusions.
InitWalkOn(trees) ==
  /\ tree \in trees
  /\ WalkIdle
  /\ mapper = "generic"
  /\ items = << >>
  /\ concurrency = 0
  /\ rejects = {}
  /\ disk = << >>
  /\ InitCommon
  /\ probe = NoValue

\* The bytes a sample is drawn from: NUL, a tab, the bytes next to both ends
\* of the printable range, a letter, and bytes above ASCII.
ProbeBytes == {0, 9, 31, 32, 65, 126, 127, 255}

ProbeSamples == UNION {[1..n -> ProbeBytes] : n \in 0..MaxSample}

\* nonPrintableThreshold as a fraction: 0, the default 0.3, 1/3, 0.5 and 1.
ProbeOptions ==
  {[treatNulAsBinary |-> t, thresholdNum |-> f[1], thresholdDen |-> f[2]] :
     t \in BOOLEAN, f \in {<<0, 1>>, <<3, 10>>, <<1, 3>>, <<1, 2>>, <<1, 1>>}}

\* isLikelyBinary on its own, on any sample of up to MaxSample bytes.
InitBinary ==
  /\ probe \in {[sample |-> s, opts |-> o, done |-> FALSE, verdict |-> FALSE] :
                  s \in ProbeSamples, o \in ProbeOptions}
  /\ tree = {}
  /\ WalkIdle
  /\ mapper = "generic"
  /\ items = << >>
  /\ concurrency = 0
  /\ rejects = {}
  /\ disk = << >>
  /\ InitCommon

\* isLikelyBinary(sample, opts) is called and returns.
ProbeCall ==
  /\ ~probe.done
  /\ probe' = [probe EXCEPT !.done = TRUE,
                            !.verdict = isLikelyBinary(probe.sample, probe.opts)]
  /\ UNCHANGED <<mapVars, walkVars>>

NextBinary ==
  \/ ProbeCall

NextMap ==
  \/ CallSequential
  \/ CallPool
  \/ \E w \in 1..Len(workers) : GenericFulfil(w)
  \/ \E w \in 1..Len(workers) : GenericReject(w)
  \/ \E w \in 1..Len(workers) : WorkerResume(w)
  \/ \E w \in 1..Len(workers) : WorkerThrow(w)
  \/ PoolReturn
  \/ PoolThrow
  \/ SeqResume
  \/ SeqThrow

NextReport ==
  \/ ReportEmpty
  \/ ReportCall
  \/ \E w \in 1..Len(workers) : StatDone(w)
  \/ \E w \in 1..Len(workers) : ReadHeadDone(w)
  \/ \E w \in 1..Len(workers) : MapperReturn(w)
  \/ \E w \in 1..Len(workers) : WorkerResume(w)
  \/ PoolReturn
  \/ Summarise

NextClassify ==
  \/ ReportCall
  \/ \E w \in 1..Len(workers) : StatDone(w)
  \/ \E w \in 1..Len(workers) : ReadHeadDone(w)
  \/ \E w \in 1..Len(workers) : MapperReturn(w)
  \/ \E w \in 1..Len(workers) : WorkerResume(w)
  \/ PoolReturn
  \/ Summarise

\* discover on a tree of up to MaxEntries entries.
InitWalk == InitWalkOn(Trees)

\* discover on a tree of up to MaxEntriesFair entries.
InitWalkFair ==
  InitWalkOn({{r} \cup S : r \in RootVariants, S \in entrySets(MaxEntriesFair)})

NextWalk ==
  \/ DiscoverCall
  \/ RootLstatDone
  \/ OpendirDone
  \/ ReadDone
  \/ ReprobeDone
  \/ CloseDone

Spec == InitMap /\ [][NextMap]_vars
SpecReport == InitReport /\ [][NextReport]_vars
SpecClassify == InitClassify /\ [][NextClassify]_vars
SpecWalk == InitWalk /\ [][NextWalk]_vars
SpecBinary == InitBinary /\ [][NextBinary]_vars

\* discover under the event loop: the continuation of a settled await runs.
SpecWalkFair == InitWalkFair /\ [][NextWalk]_vars /\ WF_vars(NextWalk)

(***************************************************************************)
(* Derived state.                                                          *)
(***************************************************************************)
\* The frames whose mapper invocation has started and not yet settled.
InFlight ==
  {w \in 1..Len(workers) :
     workers[w].pc = "await" /\ workers[w].task.phase \notin {"fulfilled", "rejected"}}

\* The frames suspended on an await.
Awaiting == {w \in 1..Len(workers) : workers[w].pc = "await"}

(***************************************************************************)
(* C1.  When every mapper invocation fulfils, mapWithConcurrency never     *)
(* rejects, it can stop only resolved, and once resolved no invocation is  *)
(* still pending, every item's mapper has been invoked, and the output has *)
(* the length of items with slot i holding mapper(items[i], i), for every  *)
(* concurrency value and every completion order.                           *)
(***************************************************************************)
C1_IndexAligned ==
  rejects = {} =>
    /\ status # "rejected"
    /\ (~ENABLED NextMap) => status = "resolved"
    /\ status = "resolved" =>
         /\ Awaiting = {}
         /\ \A k \in 1..Len(items) : calls[k] >= 1
         /\ Len(returned) = Len(items)
         /\ \A k \in 1..Len(items) : returned[k] = mapperValue(items[k], k - 1)

C1_Witness ==
  /\ status = "resolved"
  /\ rejects = {}
  /\ Len(items) = 3
  /\ items[1] # items[2]
  /\ concurrency = 2

(***************************************************************************)
(* C2.  With concurrency > 1 no index is ever claimed twice: mapper is     *)
(* never invoked more than once for an index and no two suspended workers  *)
(* hold the same index, under every interleaving; and when no invocation   *)
(* fails, the call can stop only with every index claimed exactly once.    *)
(***************************************************************************)
C2_NoDoubleClaim ==
  concurrency > 1 =>
    /\ \A k \in 1..Len(items) : calls[k] <= 1
    /\ \A v, w \in Awaiting : v # w => workers[v].i # workers[w].i
    /\ \A w \in Awaiting : workers[w].i < Len(items) /\ calls[workers[w].i + 1] = 1
    /\ (rejects = {} /\ (status = "resolved" \/ ~ENABLED NextMap)) =>
         \A k \in 1..Len(items) : calls[k] = 1

C2_Witness ==
  /\ concurrency = 2
  /\ Len(items) = 3
  /\ rejects = {}
  /\ status = "resolved"
  /\ \A k \in 1..Len(items) : calls[k] = 1
  /\ next > Len(items)

(***************************************************************************)
(* C3.  For an integer concurrency >= 1 the number of mapper invocations   *)
(* started and not yet settled never exceeds min(concurrency,              *)
(* items.length), and for concurrency > 1 the pool has exactly             *)
(* min(concurrency, items.length) workers.                                 *)
(***************************************************************************)
C3_BoundedInFlight ==
  concurrency >= 1 =>
    /\ Cardinality(InFlight) <= Min(concurrency, Len(items))
    /\ (concurrency > 1 /\ mode # "idle") =>
         /\ mode = "pool"
         /\ Len(workers) = Min(concurrency, Len(items))

C3_Witness ==
  /\ concurrency = 2
  /\ Len(items) = 3
  /\ mode = "pool"
  /\ Cardinality(InFlight) = 2
  /\ next = 3

(***************************************************************************)
(* C4.  With concurrency <= 1 the run is sequential: at most one mapper    *)
(* invocation is pending at any time, no index is started twice, and the   *)
(* invocation for an index has been started only if the results of all     *)
(* smaller indices have already been pushed to out, in index order.        *)
(***************************************************************************)
C4_Sequential ==
  concurrency <= 1 =>
    /\ mode \in {"idle", "seq"}
    /\ Len(workers) <= 1
    /\ Cardinality(Awaiting) <= 1
    /\ \A k \in 1..Len(items) :
         /\ calls[k] <= 1
         /\ calls[k] = 1 =>
              /\ Len(out) >= k - 1
              /\ \A j \in 1..(k - 1) : calls[j] = 1 /\ out[j] = mapperValue(items[j], j - 1)
    /\ \A w \in Awaiting : workers[w].i = Len(out)

C4_Witness ==
  /\ concurrency <= 1
  /\ Len(items) = 3
  /\ Len(out) = 2
  /\ InFlight = {1}
  /\ calls[3] = 1

(***************************************************************************)
(* Oracles for the classification claims, written from the claims and not  *)
(* from the operators above: what each input file is expected to yield.    *)
(***************************************************************************)
\* The contents whose first 4096 bytes hold a NUL or more than 30 % bytes
\* outside printable ASCII and TAB, LF, CR.
BinaryContents == {WithNul, MostlyControl, AboveThreshold, NulAtSampleEnd}

StatFails(p) == IsError(disk[p].stat)
OverLimit(p) == ~StatFails(p) /\ disk[p].stat.size > 204800
ReadFails(p) == IsError(disk[p].read)
LooksBinary(p) == ~ReadFails(p) /\ disk[p].read.bytes \in BinaryContents

\* The files for which classifyOne raises.
Raises(p) == StatFails(p) \/ (~OverLimit(p) /\ ReadFails(p))

\* Category and language hint the naming stage is expected to give.
ExpectedByName ==
  [p \in ClassifyPaths \cup {Catalogue[k].relativePath : k \in 1..Len(Catalogue)} |->
     CASE p = ".github/workflows/ci.yml" -> [category |-> "config", languageHint |-> "yaml"]
       [] p = ".GitHub/Action.TS"        -> [category |-> "config", languageHint |-> "ts"]
       [] p = ".github"                  -> [category |-> "code", languageHint |-> Undefined]
       [] p = ".githubx/a.js"            -> [category |-> "code", languageHint |-> "js"]
       [] p = "docs/.github/x.md"        -> [category |-> "code", languageHint |-> "md"]
       [] p = "src/main.ts"              -> [category |-> "code", languageHint |-> "ts"]
       [] p = "package.json"             -> [category |-> "config", languageHint |-> "json"]
       [] p = "lib/Package.JSON"         -> [category |-> "config", languageHint |-> "json"]
       [] p = "src/package.json.bak"     -> [category |-> "code", languageHint |-> Undefined]
       [] p = "Dockerfile"               -> [category |-> "code", languageHint |-> Undefined]
       [] p = "docker-compose.yml"       -> [category |-> "config", languageHint |-> "yaml"]
       [] p = "Makefile"                 -> [category |-> "code", languageHint |-> Undefined]
       [] p = "src/app.component.html"   -> [category |-> "code", languageHint |-> "html"]
       [] p = ".husky/pre-commit"        -> [category |-> "config", languageHint |-> Undefined]
       [] p = "a.ts"                     -> [category |-> "code", languageHint |-> "ts"]
       [] p = "big.bin"                  -> [category |-> "code", languageHint |-> Undefined]
       [] p = "broken.txt"               -> [category |-> "code", languageHint |-> Undefined]
       [] p = "img.png"                  -> [category |-> "code", languageHint |-> Undefined]
       [] p = "locked.md"                -> [category |-> "code", languageHint |-> "md"]]

\* The row a file is expected to get, from that file alone.
ExpectedRow(p) ==
  IF Raises(p) THEN [relativePath |-> p, category |-> "omit", reason |-> "READ_ERROR"]
  ELSE IF OverLimit(p)
    THEN [relativePath |-> p, category |-> "omit", reason |-> "SIZE_OVER_LIMIT"]
  ELSE IF LooksBinary(p)
    THEN [relativePath |-> p, category |-> "omit", reason |-> "LIKELY_BINARY"]
  ELSE [relativePath |-> p, category |-> ExpectedByName[p].category]

\* The rows the batch holds at this moment: settled by a mapper, stored in
\* results, or returned.
Filled(arr) == {arr[k] : k \in {j \in 1..Len(arr) : arr[j] # Empty}}

Rows ==
  {workers[w].task.val : w \in {v \in Awaiting : workers[v].task.phase = "fulfilled"}}
    \cup Filled(results) \cup Filled(returned)

\* The results of classifyOne awaited by a mapper at this moment.
ClassifiedNow ==
  {workers[w].task.val : w \in {v \in Awaiting : workers[v].task.phase = "classified"}}

\* The frames in which classifyOne has settled, with a result or an error.
Settled == {w \in Awaiting : workers[w].task.phase \in {"classified", "threw"}}

(***************************************************************************)
(* C5.  In the classification batch a file whose stat or readHead raises   *)
(* gets the row omit/READ_ERROR and nothing else changes: the batch never  *)
(* rejects, it can stop only resolved and summarised, and every row of     *)
(* the batch is the row expected from its own file alone, under every      *)
(* interleaving of the workers.                                            *)
(***************************************************************************)
C5_FailureIsolated ==
  /\ status # "rejected"
  /\ \A w \in 1..Len(workers) : workers[w].pc # "threw"
  /\ (~ENABLED NextReport) =>
       \/ mode = "skipped"
       \/ status = "resolved" /\ summary # NoSummary
  /\ \A r \in Rows : r = ExpectedRow(r.relativePath)
  /\ status = "resolved" =>
       \A k \in 1..Len(items) : returned[k] = ExpectedRow(items[k].relativePath)

C5_Witness ==
  /\ status = "resolved"
  /\ Len(items) = 3
  /\ returned[1].category = "code"
  /\ returned[2] = [relativePath |-> "broken.txt", category |-> "omit", reason |-> "READ_ERROR"]
  /\ returned[3] = [relativePath |-> "locked.md", category |-> "omit", reason |-> "READ_ERROR"]

(***************************************************************************)
(* C6.  When the batch has resolved, the relativePath values of the        *)
(* classified rows are the discovered relativePath values, in the same     *)
(* order and number, also when items failed; and the summary counts add    *)
(* up to the number of discovered files.                                   *)
(***************************************************************************)
C6_NothingDropped ==
  /\ status = "resolved" =>
       /\ Len(returned) = Len(items)
       /\ \A k \in 1..Len(items) :
            returned[k] # Empty /\ returned[k].relativePath = items[k].relativePath
  /\ summary # NoSummary =>
       /\ status = "resolved"
       /\ summary.countCode + summary.countConfig + summary.countOmit = Len(items)
       /\ summary.total = Len(items)
       /\ summary.countOmit = Cardinality({k \in 1..Len(returned) : returned[k].category = "omit"})

C6_Witness ==
  /\ summary # NoSummary
  /\ Len(items) = 3
  /\ summary.countCode = 1
  /\ summary.countConfig = 1
  /\ summary.countOmit = 1
  /\ \E k \in 1..Len(returned) : returned[k].category = "omit" /\ returned[k].reason = "READ_ERROR"

(***************************************************************************)
(* C7.  Every decision classifyOne produces and every row the orchestrator *)
(* produces, the catch branch's rows included, carries a reason if and     *)
(* only if its category is omit.                                           *)
(***************************************************************************)
C7_ReasonIffOmit ==
  /\ \A c \in ClassifiedNow :
       ("reason" \in DOMAIN c.decision) <=> (c.decision.category = "omit")
  /\ \A r \in Rows : ("reason" \in DOMAIN r) <=> (r.category = "omit")

C7_Witness ==
  /\ status = "resolved"
  /\ StatFails(items[1].relativePath)
  /\ returned[1].category = "omit"
  /\ returned[1].reason = "READ_ERROR"

(***************************************************************************)
(* C8.  classifyOne yields omit/SIZE_OVER_LIMIT exactly when stat          *)
(* succeeds with sizeBytes > maxBytes (a size equal to maxBytes is within  *)
(* the limit), whatever the content and the path; and for such a file      *)
(* neither readHead nor the binary check is ever invoked.                  *)
(***************************************************************************)
C8_SizeStage ==
  /\ \A w \in Settled :
       LET p == pathOf(w)
           t == workers[w].task
       IN  (t.phase = "classified" /\ t.val.decision = [category |-> "omit", reason |-> "SIZE_OVER_LIMIT"])
             <=> OverLimit(p)
  /\ \A k \in 1..Len(items) :
       OverLimit(items[k].relativePath) =>
         /\ <<"readHead", k - 1>> \notin readerLog
         /\ <<"binaryCheck", k - 1>> \notin readerLog
  /\ \A r \in Rows :
       (r.category = "omit" /\ r.reason = "SIZE_OVER_LIMIT") <=> OverLimit(r.relativePath)

C8_Witness ==
  /\ status = "resolved"
  /\ disk[items[1].relativePath].stat = [size |-> 204801]
  /\ disk[items[1].relativePath].read = [bytes |-> HelloWorld]
  /\ items[1].relativePath = ".github/workflows/ci.yml"
  /\ returned[1].category = "omit"
  /\ returned[1].reason = "SIZE_OVER_LIMIT"
  /\ readerLog = {<<"stat", 0>>}

(***************************************************************************)
(* C9.  classifyOne yields omit/LIKELY_BINARY exactly when the file is     *)
(* within the size limit, readHead succeeds and the first 4096 bytes of    *)
(* the content are binary-like (a NUL, or more than 30 % non-printable     *)
(* bytes), whatever the path; a sample without NUL and with printable or   *)
(* whitespace bytes only is never LIKELY_BINARY.                           *)
(***************************************************************************)
C9_BinaryStage ==
  /\ \A w \in Settled :
       LET p == pathOf(w)
           t == workers[w].task
       IN  (t.phase = "classified" /\ t.val.decision = [category |-> "omit", reason |-> "LIKELY_BINARY"])
             <=> (~StatFails(p) /\ ~OverLimit(p) /\ LooksBinary(p))
  /\ \A r \in Rows :
       (r.category = "omit" /\ r.reason = "LIKELY_BINARY")
         <=> (~StatFails(r.relativePath) /\ ~OverLimit(r.relativePath) /\ LooksBinary(r.relativePath))

C9_Witness ==
  /\ status = "resolved"
  /\ items[1].relativePath = ".github/workflows/ci.yml"
  /\ disk[items[1].relativePath].stat = [size |-> 204800]
  /\ disk[items[1].relativePath].read = [bytes |-> NulAtSampleEnd]
  /\ returned[1].category = "omit"
  /\ returned[1].reason = "LIKELY_BINARY"

(***************************************************************************)
(* C10.  A file that passes the size and binary stages is always decided   *)
(* by the naming stage, which never omits and never raises: config when    *)
(* the lower-cased path starts with a config directory prefix or the       *)
(* lower-cased basename is in the config basename table, code otherwise,   *)
(* with the language hint given by the extension alone.                    *)
(***************************************************************************)
C10_NamingStage ==
  \A w \in Settled :
    LET p == pathOf(w)
        t == workers[w].task
    IN  (~StatFails(p) /\ ~OverLimit(p) /\ ~ReadFails(p) /\ ~LooksBinary(p)) =>
          /\ t.phase = "classified"
          /\ t.val.relativePath = p
          /\ t.val.decision = ExpectedByName[p]

C10_Witness ==
  \E w \in Settled :
    /\ pathOf(w) = ".GitHub/Action.TS"
    /\ disk[pathOf(w)].stat = [size |-> 204800]
    /\ disk[pathOf(w)].read = [bytes |-> AtThreshold]
    /\ workers[w].task.phase = "classified"
    /\ workers[w].task.val.decision = [category |-> "config", languageHint |-> "ts"]

(***************************************************************************)
(* Derived state of the walker.                                            *)
(***************************************************************************)
\* The nodes on the way from the root down to the node at abs, itself excluded.
ancestors(abs) == {n \in tree : n.abs # abs /\ startsWith(abs, n.abs \o "/")}

\* The directory the walker is opening, reading or closing, if any.
Visiting == IF walkPc \in {"opendir", "read", "reprobe", "close"} THEN {dirHandle.dir} ELSE {}

\* Every directory the walker has pushed, popped or opened so far.
Touched == {stack[k] : k \in 1..Len(stack)} \cup {opened[k] : k \in 1..Len(opened)} \cup Visiting

occurrences(arr, x) == Cardinality({k \in 1..Len(arr) : arr[k] = x})

\* The entries discover built for the files it emitted, in emission order.
EmittedEntries ==
  [k \in 1..Len(emitted) |-> [relativePath |-> toPosixRelativePath(relative(Root, emitted[k]))]]

\* The array discover returned holds the emitted entries, each as often.
ReturnsTheEmitted ==
  /\ Len(walkResult) = Len(emitted)
  /\ \A k \in 1..Len(emitted) :
       occurrences(walkResult, EmittedEntries[k]) = occurrences(EmittedEntries, EmittedEntries[k])

(***************************************************************************)
(* C11.  discover never follows a symbolic link: no directory it pushes,   *)
(* pops or opens is a symlink, no file it emits is a symlink or lies below *)
(* a symlinked directory, whether the link shows in the directory entry's  *)
(* type or only in the lstat re-probe of an entry of unknown type, and the *)
(* array it returns holds exactly the emitted files.                       *)
(***************************************************************************)
C11_NoSymlinks ==
  /\ \A d \in Touched : nodeAt(d).kind # "symlink"
  /\ \A k \in 1..Len(emitted) :
       /\ nodeAt(emitted[k]).kind # "symlink"
       /\ \A d \in ancestors(emitted[k]) : d.kind # "symlink"
  /\ walkPc = "resolved" => ReturnsTheEmitted

C11_Witness ==
  /\ walkPc = "resolved"
  /\ Len(walkResult) > 0
  /\ \E n \in tree, m \in tree :
       n.kind = "symlink" /\ n.dtype = "unknown" /\ m.kind = "file" /\ m.dir = n.abs

(***************************************************************************)
(* C12.  The array discover returns is sorted ascending by relativePath    *)
(* under the numeric-aware comparison, and the comparison never reports    *)
(* two different returned paths as equal, so that the order of the result  *)
(* does not depend on the order in which the directories were enumerated.  *)
(***************************************************************************)
C12_SortedDeterministic ==
  walkPc = "resolved" =>
    \A j \in 1..Len(walkResult), k \in 1..Len(walkResult) :
      j < k =>
        /\ localeCompare(walkResult[j].relativePath, walkResult[k].relativePath) <= 0
        /\ walkResult[j].relativePath # walkResult[k].relativePath =>
             localeCompare(walkResult[j].relativePath, walkResult[k].relativePath) # 0

\* The directory components of a relative path: the texts that end at a '/'.
dirComponents(rel) ==
  LET slashes == {k \in 1..Len(rel) : CharAt(rel, k) = "/"}
      starts  == {1} \cup {k + 1 : k \in slashes}
      endOf(s) == CHOOSE e \in slashes : e >= s /\ \A x \in slashes : x >= s => e <= x
  IN  {SubSeq(rel, s, endOf(s) - 1) : s \in {x \in starts : \E e \in slashes : e >= x}}

(***************************************************************************)
(* C13.  A directory below the root whose lower-cased name is in           *)
(* excludedDirNames is never pushed nor opened; no emitted file lies below *)
(* such a directory at any depth or has a lower-cased name in              *)
(* excludedFileNames, and no returned path has a component or a basename   *)
(* of that kind.  On the tree a.ts, node_modules/b.js, .git/HEAD, big.bin  *)
(* discover returns exactly a.ts and big.bin.                              *)
(***************************************************************************)
C13_ExclusionsPrune ==
  /\ \A d \in Touched : d # Root => toLowerCase(nodeAt(d).name) \notin excludedDirs
  /\ \A k \in 1..Len(emitted) :
       /\ toLowerCase(nodeAt(emitted[k]).name) \notin excludedFiles
       /\ \A d \in ancestors(emitted[k]) :
            d.abs # Root => toLowerCase(d.name) \notin excludedDirs
  /\ walkPc = "resolved" =>
       /\ Len(walkResult) = Len(emitted)
       /\ \A k \in 1..Len(walkResult) :
            /\ toLowerCase(splitPop(walkResult[k].relativePath)) \notin excludedFiles
            /\ \A c \in dirComponents(walkResult[k].relativePath) :
                 toLowerCase(c) \notin excludedDirs
  /\ (walkPc = "resolved" /\ tree = ExampleTree) =>
       walkResult = <<[relativePath |-> "a.ts"], [relativePath |-> "big.bin"]>>

C13_Witness ==
  /\ walkPc = "resolved"
  /\ tree = ExampleTree
  /\ walkResult = <<[relativePath |-> "a.ts"], [relativePath |-> "big.bin"]>>
  /\ opened = <<Root>>

(***************************************************************************)
(* C14.  Once lstat of the root has answered, discover has rejected with   *)
(* RootIsSymlink if the root is a symbolic link and with RootNotDirectory  *)
(* if it is anything else but a directory, and in no other case; when it   *)
(* rejects so, no directory has been pushed or opened, no file has been    *)
(* emitted and no array has been returned.                                 *)
(***************************************************************************)
C14_RootValidation ==
  LET r == nodeAt(Root)
      answered == walkPc \notin {"idle", "lstatRoot"} /\ r.fault # "lstat"
  IN  /\ (answered /\ r.kind = "symlink") =>
           walkPc = "rejected" /\ walkError = "RootIsSymlink"
      /\ (answered /\ r.kind \in {"file", "other"}) =>
           walkPc = "rejected" /\ walkError = "RootNotDirectory"
      /\ walkError = "RootIsSymlink" => r.kind = "symlink"
      /\ walkError = "RootNotDirectory" => r.kind \in {"file", "other"}
      /\ walkError \in {"RootIsSymlink", "RootNotDirectory"} =>
           /\ walkPc = "rejected"
           /\ Touched = {}
           /\ opened = << >>
           /\ emitted = << >>
           /\ walkOut = << >>
           /\ walkResult = << >>

C14_Witness ==
  /\ walkPc = "rejected"
  /\ walkError = "RootIsSymlink"
  /\ nodeAt(Root).target = "dir"
  /\ \E n \in tree : n.dir = Root /\ n.kind = "file"

\* The directories discover can walk into: real directories that open, not
\* excluded by name unless the root, reached through directories of that kind.
walkable(d) ==
  /\ d.kind = "dir"
  /\ d.fault # "open"
  /\ d.abs # Root => toLowerCase(d.name) \notin excludedDirs

\* The regular files of the tree that discover is to return.
Discoverable ==
  {n \in tree : /\ n.kind = "file"
                /\ n.abs # Root
                /\ toLowerCase(n.name) \notin excludedFiles
                /\ \A d \in ancestors(n.abs) : walkable(d)}

EmittedSet == {emitted[k] : k \in 1..Len(emitted)}

(***************************************************************************)
(* C15.  A directory that cannot be opened, the root after its validation  *)
(* included, makes discover raise no error: a rejection always comes from  *)
(* the root validation or from a failing lstat, read or close on a node of *)
(* the tree.  No file below the unopenable directory is emitted, and when  *)
(* discover resolves every file to be discovered elsewhere was emitted.    *)
(***************************************************************************)
C15_OpenFailureSkips ==
  /\ walkError # "open"
  /\ walkPc = "rejected" =>
       \/ walkError \in {"RootIsSymlink", "RootNotDirectory"}
       \/ \E n \in tree : n.fault = walkError /\ n.fault \in {"lstat", "read", "close"}
  /\ \A k \in 1..Len(emitted) :
       \A d \in ancestors(emitted[k]) : d.fault # "open"
  /\ walkPc = "resolved" => \A n \in Discoverable : n.abs \in EmittedSet

C15_Witness ==
  /\ walkPc = "resolved"
  /\ \E n \in tree : n.abs # Root /\ n.fault = "open"
  /\ \E k \in 1..Len(emitted) : nodeAt(emitted[k]).dir # Root
  /\ \E k \in 1..Len(walkResult) : walkResult[k].relativePath = "a/b"

(***************************************************************************)
(* C16.  discover rejects only with one of the two root validation errors: *)
(* a failing lstat of the root, read of a directory entry, close of a      *)
(* directory handle or lstat re-probe never makes it reject.               *)
(***************************************************************************)
C16_OnlyRootValidationPropagates ==
  walkPc = "rejected" => walkError \in {"RootIsSymlink", "RootNotDirectory"}

\* The reference of the binary heuristic, written from its description.
RefNonPrintableBytes == (0..8) \cup {11, 12} \cup (14..31) \cup (127..255)

RECURSIVE RefCount(_, _)
RefCount(sample, k) ==
  IF k > Len(sample) THEN 0
  ELSE (IF sample[k] \in RefNonPrintableBytes THEN 1 ELSE 0) + RefCount(sample, k + 1)

RefBinary(sample, opts) ==
  CASE sample = << >> -> FALSE
    [] sample # << >> /\ opts.treatNulAsBinary /\ (\E k \in DOMAIN sample : sample[k] = 0) -> TRUE
    [] OTHER -> RefCount(sample, 1) * opts.thresholdDen > Len(sample) * opts.thresholdNum

(***************************************************************************)
(* C17.  For every sample and every option pair isLikelyBinary returns     *)
(* what the reference returns: false for the empty sample; true when       *)
(* treatNulAsBinary is set and a byte is 0x00; otherwise true exactly when *)
(* the fraction of bytes outside 0x20..0x7E, 0x09, 0x0A, 0x0D is strictly  *)
(* greater than nonPrintableThreshold, so a fraction equal to the          *)
(* threshold is not binary, and NUL counts as non-printable when           *)
(* treatNulAsBinary is off.                                                *)
(***************************************************************************)
C17_MatchesReference ==
  probe.done =>
    /\ probe.verdict = RefBinary(probe.sample, probe.opts)
    /\ probe.sample = << >> => ~probe.verdict
    /\ (RefCount(probe.sample, 1) * probe.opts.thresholdDen
          = Len(probe.sample) * probe.opts.thresholdNum
        /\ ~(probe.opts.treatNulAsBinary /\ \E k \in DOMAIN probe.sample : probe.sample[k] = 0))
         => ~probe.verdict

C17_Witness ==
  /\ probe.done
  /\ probe.sample = <<0, 65>>
  /\ ~probe.opts.treatNulAsBinary
  /\ probe.opts.thresholdNum = 1 /\ probe.opts.thresholdDen = 2
  /\ ~probe.verdict

(***************************************************************************)
(* C18.  A file that passes the size and binary stages and whose basename  *)
(* equals an entry of the config basename table, letter case disregarded   *)
(* and in whatever directory, is classified config: every entry of the     *)
(* table can be matched by the lower-cased basename.                       *)
(***************************************************************************)
C18_EveryBasenameMatches ==
  \A w \in Settled :
    LET p == pathOf(w)
        t == workers[w].task
    IN  (/\ ~StatFails(p) /\ ~OverLimit(p) /\ ~ReadFails(p) /\ ~LooksBinary(p)
         /\ \E e \in CONFIG_BASENAMES : toLowerCase(splitPop(p)) = toLowerCase(e)) =>
          /\ t.phase = "classified"
          /\ t.val.decision.category = "config"

(***************************************************************************)
(* C19.  No decision of classifyOne and no row of the orchestrator carries *)
(* the reason UNKNOWN_ENCODING: every reason is SIZE_OVER_LIMIT,           *)
(* LIKELY_BINARY or READ_ERROR.  The pipeline calls the reader for stat    *)
(* and readHead only, never for readTextNormalized.                        *)
(***************************************************************************)
C19_ThreeReasonsOnly ==
  /\ \A c \in ClassifiedNow :
       "reason" \in DOMAIN c.decision =>
         c.decision.reason \in {"SIZE_OVER_LIMIT", "LIKELY_BINARY"}
  /\ \A r \in Rows :
       "reason" \in DOMAIN r =>
         r.reason \in {"SIZE_OVER_LIMIT", "LIKELY_BINARY", "READ_ERROR"}
  /\ \A e \in readerLog : e[1] \in {"stat", "readHead", "binaryCheck"}

C19_Witness ==
  /\ status = "resolved"
  /\ {returned[k].reason : k \in {j \in 1..Len(returned) : returned[j].category = "omit"}}
       = {"SIZE_OVER_LIMIT", "LIKELY_BINARY", "READ_ERROR"}

\* The path of a node relative to the root, as it is spelt on disk.
pathBelowRoot(n) == SubSeq(n.abs, Len(Root) + 2, Len(n.abs))

(***************************************************************************)
(* C20.  When discover resolves, it returns each regular file exactly once *)
(* if and only if the file's lower-cased name is not in excludedFileNames  *)
(* and every directory from the root down to it opens, is no symlink and,  *)
(* below the root, has a lower-cased name not in excludedDirNames; the     *)
(* returned relative paths are pairwise different, each is the path of     *)
(* such a file, and nothing else is returned.                              *)
(***************************************************************************)
C20_ExactlyTheDiscoverable ==
  walkPc = "resolved" =>
    /\ EmittedSet = {n.abs : n \in Discoverable}
    /\ Len(emitted) = Cardinality(Discoverable)
    /\ Len(walkResult) = Cardinality(Discoverable)
    /\ \A j \in 1..Len(walkResult), k \in 1..Len(walkResult) :
         j # k => walkResult[j].relativePath # walkResult[k].relativePath
    /\ {walkResult[k].relativePath : k \in 1..Len(walkResult)}
         = {pathBelowRoot(n) : n \in Discoverable}

noRepeats(arr) == \A j \in 1..Len(arr), k \in 1..Len(arr) : arr[j] = arr[k] => j = k

\* The tree has a valid root and no system call on it fails past opendir.
ReadsAndClosesWork ==
  /\ nodeAt(Root).kind = "dir"
  /\ \A n \in tree : n.fault \notin {"lstat", "read", "close"}

\* One open / read / close cycle at a time, every directory at most once.
OneHandleAtATime ==
  /\ noRepeats(popped)
  /\ noRepeats(opened)
  /\ \A k \in 1..Len(opened) : \E j \in 1..Len(popped) : popped[j] = opened[k]
  /\ Len(closed) <= Len(opened)
  /\ Len(opened) <= Len(closed) + 1
  /\ \A k \in 1..Len(closed) : closed[k] = opened[k]
  /\ walkPc = "opendir" => closed = opened
  /\ walkPc = "resolved" => closed = opened /\ stack = << >>
  /\ Len(closed) < Len(opened) =>
       \/ walkPc \in {"read", "reprobe", "close"}
       \/ walkPc = "rejected" /\ walkError = "close"
  /\ (walkPc = "rejected" /\ nodeAt(Root).kind = "dir") => ~ReadsAndClosesWork

(***************************************************************************)
(* C21.  discover always comes to an end, and on a tree with a valid root  *)
(* on which reads and closes work that end is never a rejection: it is the *)
(* sorted result returned with the stack empty.                            *)
(* On the way no directory is popped or opened twice, and the handle of an *)
(* opened directory is closed before the next directory is opened: at most *)
(* one handle is open at any time.                                         *)
(***************************************************************************)
C21_TerminatesTidy ==
  /\ []OneHandleAtATime
  /\ <>(walkPc \in {"resolved", "rejected"})

C21_Witness ==
  /\ walkPc = "resolved"
  /\ ReadsAndClosesWork
  /\ Len(popped) = 3
  /\ Len(opened) = 2
  /\ closed = opened


(***************************************************************************)
(* C22.  A rejecting mapper invocation makes the returned promise reject   *)
(* and never resolve.  With concurrency > 1 a worker stops early only by   *)
(* the rejection of its own item: every other worker can always take its   *)
(* next step, whatever the state of the promise, and returns only after    *)
(* it has seen the cursor at or past the end, so the call can stop only    *)
(* with every item passed to mapper or every worker stopped by its own     *)
(* rejection.  With concurrency <= 1 no item after a rejecting one that    *)
(* was reached is ever passed to mapper.                                   *)
(***************************************************************************)
Threw == {w \in 1..Len(workers) : workers[w].pc = "threw"}

RejectionSeen ==
  \E w \in 1..Len(workers) :
     /\ workers[w].pc \in {"await", "threw"}
     /\ workers[w].task.phase = "rejected"

Stopped == mode # "idle" /\ ~ENABLED NextMap

C22_RejectionStopsOneWorker ==
  /\ RejectionSeen => status # "resolved"
  /\ status = "rejected" => Threw # {}
  /\ Stopped => (status = "rejected" <=> \E k \in rejects : calls[k + 1] >= 1)
  /\ \A w \in Threw : workers[w].i \in rejects /\ calls[workers[w].i + 1] = 1
  /\ concurrency > 1 =>
       /\ \A w \in 1..Len(workers) :
            /\ workers[w].pc = "returned" =>
                 /\ workers[w].i >= Len(items)
                 /\ next > Len(items)
                 /\ \A k \in 1..Len(items) : calls[k] = 1
            /\ (workers[w].pc = "await" /\ workers[w].task.phase = "fulfilled") =>
                 ENABLED WorkerResume(w)
            /\ (workers[w].pc = "await" /\ workers[w].task.phase = "run") =>
                 ENABLED (GenericFulfil(w) \/ GenericReject(w))
       /\ Stopped =>
            \/ \A k \in 1..Len(items) : calls[k] = 1
            \/ Threw = 1..Len(workers)
  /\ concurrency <= 1 =>
       \A k \in rejects : calls[k + 1] >= 1 =>
          \A j \in (k + 2)..Len(items) : calls[j] = 0

\* The promise has rejected on item 0 while item 2 is unclaimed, and the
\* second worker is about to resume and claim it.
C22_Witness ==
  /\ concurrency = 2
  /\ Len(items) = 3
  /\ rejects = {0}
  /\ status = "rejected"
  /\ workers[1].pc = "threw"
  /\ workers[2].pc = "await" /\ workers[2].i = 1 /\ workers[2].task.phase = "fulfilled"
  /\ calls[3] = 0


(***************************************************************************)
(* C23.  For every entry of the default excluded-directory table, no file  *)
(* discover emits lies below a directory that has the entry as its name or *)
(* as its path relative to the root, and no returned path starts with the  *)
(* entry followed by '/' or has the entry as a directory component.        *)
(***************************************************************************)
\* The directories of the tree that a table entry designates.
designated(entry) ==
  {d \in tree : /\ d.abs # Root
                /\ d.kind = "dir"
                /\ (d.name = entry \/ relative(Root, d.abs) = entry)}

C23_EveryTableEntryPrunes ==
  \A entry \in DEFAULT_EXCLUDED_DIR_NAMES :
    /\ \A k \in 1..Len(emitted) : ancestors(emitted[k]) \cap designated(entry) = {}
    /\ walkPc = "resolved" =>
         \A k \in 1..Len(walkResult) :
            /\ ~startsWith(walkResult[k].relativePath, entry \o "/")
            /\ entry \notin dirComponents(walkResult[k].relativePath)

====
